---- MODULE Spec2Model ----
(***************************************************************************)
(* Key pairs of src/src/utils/key_pair.ts: the key-type registry,          *)
(* PublicKey, the KeyPair factories, KeyPairEd25519 with its signing and   *)
(* its box encryption.                                                     *)
(*                                                                         *)
(* A byte array (Uint8Array) is a sequence of naturals, a string is a      *)
(* sequence of one-character strings.  The primitives of tweetnacl and     *)
(* ed2curve are ideal and position-wise: output byte j is an injective     *)
(* function of the input bytes at position j, so that two outputs are      *)
(* equal exactly when their inputs are (no collisions, no forgeries); the  *)
(* value at a position of a MAC or of a signature therefore ranges over    *)
(* the naturals and not over 0..255.  Their size checks are tweetnacl's.   *)
(***************************************************************************)
EXTENDS Naturals, Integers, Sequences, FiniteSets, TLC

VARIABLES kp, pub, sig, env, res

vars == <<kp, pub, sig, env, res>>

(***************************************************************************)
(* Bounds of the model.                                                    *)
(***************************************************************************)
NumSeeds == 2
MaxMsgLen == 1
NumEphemeral == 1
NumNonces == 1

(***************************************************************************)
(* Sizes.                                                                  *)
(***************************************************************************)
ByteRange == 256
PublicKeyLength == 32
NonceLength == 24
CipherOffset == 56
SecretKeyLength == 64
SeedLength == 32
BoxOverhead == 16
SignatureLength == 64

Min(a, b) == IF a < b THEN a ELSE b

Max(a, b) == IF a < b THEN b ELSE a

\* Uint8Array.prototype.slice(start, end) for 0 <= start <= end: clamped to
\* the length of the array, never an error.
Slice(buf, start, end) == SubSeq(buf, Min(start, Len(buf)) + 1, Min(end, Len(buf)))

\* Uint8Array.prototype.slice(start): to the end of the array.
SliceFrom(buf, start) == SubSeq(buf, Min(start, Len(buf)) + 1, Len(buf))

\* A buffer of n bytes, all equal to b.
Fill(n, b) == [i \in 1..n |-> b]

(***************************************************************************)
(* Strings.                                                                *)
(***************************************************************************)
UpperLetters == <<"A","B","C","D","E","F","G","H","I","J","K","L","M",
                  "N","O","P","Q","R","S","T","U","V","W","X","Y","Z">>

LowerLetters == <<"a","b","c","d","e","f","g","h","i","j","k","l","m",
                  "n","o","p","q","r","s","t","u","v","w","x","y","z">>

Index(letters, c) == CHOOSE i \in 1..Len(letters) : letters[i] = c

Range(letters) == {letters[i] : i \in 1..Len(letters)}

LowerOfUpper == [c \in Range(UpperLetters) |-> LowerLetters[Index(UpperLetters, c)]]

UpperOfLower == [c \in Range(LowerLetters) |-> UpperLetters[Index(LowerLetters, c)]]

toLowerCaseChar(c) == IF c \in DOMAIN LowerOfUpper THEN LowerOfUpper[c] ELSE c

toUpperCaseChar(c) == IF c \in DOMAIN UpperOfLower THEN UpperOfLower[c] ELSE c

\* String.prototype.toLowerCase / toUpperCase.
toLowerCase(s) == [i \in 1..Len(s) |-> toLowerCaseChar(s[i])]

toUpperCase(s) == [i \in 1..Len(s) |-> toUpperCaseChar(s[i])]

\* The positions of the separator in s, in increasing order.
SeparatorPositions(s, sep) ==
    LET found == {i \in 1..Len(s) : s[i] = sep}
    IN  [k \in 1..Cardinality(found) |->
            CHOOSE i \in found : Cardinality({j \in found : j < i}) = k - 1]

\* String.prototype.split(sep) for a one-character separator: the pieces
\* between the separators, one more than there are separators.
split(s, sep) ==
    LET at == SeparatorPositions(s, sep)
        n == Len(at)
        lo(k) == IF k = 1 THEN 1 ELSE at[k - 1] + 1
        hi(k) == IF k = n + 1 THEN Len(s) ELSE at[k] - 1
    IN  [k \in 1..(n + 1) |-> SubSeq(s, lo(k), hi(k))]

Colon == ":"

ED25519_TAG == <<"e","d","2","5","5","1","9">>

ED25519_UPPER == <<"E","D","2","5","5","1","9">>

(***************************************************************************)
(* Results of a call: a value, null, or a thrown Error.                    *)
(***************************************************************************)
Ok(v) == [kind |-> "ok", err |-> "", val |-> v]

Thrown(e) == [kind |-> "throw", err |-> e, val |-> <<>>]

NullResult == [kind |-> "null", err |-> "", val |-> <<>>]

(***************************************************************************)
(* ./serialize: base_encode, base_decode.  A codec of the base-58 family:  *)
(* every byte becomes two characters of the alphabet; decoding fails on a  *)
(* character outside the alphabet and on a string that encodes no bytes.   *)
(***************************************************************************)
ALPHABET == <<"1","2","3","4","5","6","7","8","9",
              "A","B","C","D","E","F","G","H","J","K","L","M","N","P","Q",
              "R","S","T","U","V","W","X","Y","Z",
              "a","b","c","d","e","f","g","h","i","j","k","m","n","o","p",
              "q","r","s","t","u","v","w","x","y","z">>

AlphabetSize == Len(ALPHABET)

ALPHABET_MAP == [c \in Range(ALPHABET) |-> Index(ALPHABET, c) - 1]

InAlphabet(c) == c \in DOMAIN ALPHABET_MAP

DigitOf(c) == ALPHABET_MAP[c]

base_encode(bytes) ==
    [i \in 1..(2 * Len(bytes)) |->
        IF i % 2 = 1
        THEN ALPHABET[(bytes[(i + 1) \div 2] \div AlphabetSize) + 1]
        ELSE ALPHABET[(bytes[i \div 2] % AlphabetSize) + 1]]

base_decode(str) ==
    IF \E i \in 1..Len(str) : ~InAlphabet(str[i])
    THEN Thrown("InvalidEncoding")
    ELSE IF Len(str) % 2 = 1
    THEN Thrown("InvalidEncoding")
    ELSE LET byteAt(j) == DigitOf(str[2 * j - 1]) * AlphabetSize + DigitOf(str[2 * j])
         IN  IF \E j \in 1..(Len(str) \div 2) : byteAt(j) >= ByteRange
             THEN Thrown("InvalidEncoding")
             ELSE Ok([j \in 1..(Len(str) \div 2) |-> byteAt(j)])

(***************************************************************************)
(* The key-type registry.                                                  *)
(***************************************************************************)
ED25519 == 0

\* key_type_to_str that prints the tag in capitals.
key_type_to_str_Upper(keyType) ==
    IF keyType = ED25519 THEN Ok(ED25519_UPPER)
    ELSE Thrown("Unknown key type")

key_type_to_str(keyType) ==
    IF keyType = ED25519 THEN Ok(ED25519_TAG)
    ELSE Thrown("Unknown key type")

str_to_key_type(keyType) ==
    IF toLowerCase(keyType) = ED25519_TAG THEN Ok(ED25519)
    ELSE Thrown("Unknown key type")

(***************************************************************************)
(* PublicKey.                                                              *)
(***************************************************************************)
NewPublicKey(keyType, data) == [keyType |-> keyType, data |-> data]

InvalidFormat == Thrown("Invalid encoded key format, must be <curve>:<encoded key>")

\* The properties of the object literal are evaluated in order: keyType
\* (str_to_key_type) before data (base_decode).
PublicKeyFromString(encodedKey) ==
    LET parts == split(encodedKey, Colon)
    IN  IF Len(parts) = 1
        THEN LET d == base_decode(parts[1])
             IN  IF d.kind = "throw" THEN d
                 ELSE Ok(NewPublicKey(ED25519, d.val))
        ELSE IF Len(parts) = 2
        THEN LET t == str_to_key_type(parts[1])
                 d == base_decode(parts[2])
             IN  IF t.kind = "throw" THEN t
                 ELSE IF d.kind = "throw" THEN d
                 ELSE Ok(NewPublicKey(t.val, d.val))
        ELSE InvalidFormat

PublicKeyToString(key) ==
    LET t == key_type_to_str(key.keyType)
    IN  IF t.kind = "throw" THEN t
        ELSE Ok(t.val \o <<Colon>> \o base_encode(key.data))

(***************************************************************************)
(* tweetnacl and ed2curve.  Position j of a key or of an output depends on *)
(* position j of the inputs alone:                                         *)
(*   ScalarOf       crypto_hash of the seed, clamped: the Ed25519 scalar   *)
(*   EdPointOf      the scalar times the Ed25519 base point                *)
(*   CurvePointOf   the scalar times the Curve25519 base point             *)
(* each a bijection of the byte range, with the discrete logarithms        *)
(* EdScalarOf and CurveScalarOf as inverses (used only to decide what an   *)
(* ideal verification or key agreement decides).                           *)
(***************************************************************************)
ScalarOf(seedByte) == (seedByte + 7) % ByteRange

EdPointOf(scalar) == (scalar + 64) % ByteRange

EdScalarOf(point) == (point - 64) % ByteRange

CurvePointOf(scalar) == (scalar + 128) % ByteRange

CurveScalarOf(point) == (point - 128) % ByteRange

\* An injective code of the unordered pair {a, b}: the Diffie-Hellman
\* secret of two scalars, the same whichever side computes it.
PairOf(a, b) == (Max(a, b) * (Max(a, b) + 1)) \div 2 + Min(a, b)

\* Byte j of a message for a position-wise MAC or signature: 0 past its end.
At(bytes, j) == IF j <= Len(bytes) THEN bytes[j] + 1 ELSE 0

\* Position j of a buffer read cyclically.
Cyc(bytes, j) == bytes[((j - 1) % Len(bytes)) + 1]

\* nacl.sign.keyPair.fromSecretKey: the public key is the second half of
\* the 64-byte secret key, copied out; nothing is derived from the seed.
nacl_sign_keyPair_fromSecretKey(secretKey) ==
    IF Len(secretKey) # SecretKeyLength THEN Thrown("bad secret key size")
    ELSE Ok([publicKey |-> Slice(secretKey, SeedLength, SecretKeyLength),
             secretKey |-> secretKey])

\* nacl.sign.keyPair.fromSeed, which nacl.sign.keyPair() applies to random
\* bytes: seed || public key derived from the seed.
nacl_sign_keyPair(seed) ==
    LET publicKey == [j \in 1..PublicKeyLength |-> EdPointOf(ScalarOf(seed[j]))]
    IN  [publicKey |-> publicKey, secretKey |-> seed \o publicKey]

\* nacl.sign.detached: R || S with R = r.B, r = H(prefix, message), and
\* S = r + H(R, public half of the secret key, message) * scalar.
SignatureR(seedByte, m) == (ScalarOf(seedByte) + m) % 127

SignatureS(r, publicByte, m, scalar) ==
    ((r * ByteRange + publicByte) * (ByteRange + 1) + m) * ByteRange + scalar

nacl_sign_detached(message, secretKey) ==
    IF Len(secretKey) # SecretKeyLength THEN Thrown("bad secret key size")
    ELSE Ok([j \in 1..SignatureLength |->
               IF j <= SeedLength
               THEN SignatureR(secretKey[j], At(message, j))
               ELSE LET i == j - SeedLength
                    IN  SignatureS(SignatureR(secretKey[i], At(message, i)),
                                   secretKey[SeedLength + i], At(message, i),
                                   ScalarOf(secretKey[i]))])

\* nacl.sign.detached.verify: S.B = R + H(R, publicKey, message).A, which
\* holds exactly when S was made for this R, this public key, this message
\* and the scalar of this public key.
nacl_sign_detached_verify(message, signature, publicKey) ==
    IF Len(signature) # SignatureLength THEN Thrown("bad signature size")
    ELSE IF Len(publicKey) # PublicKeyLength THEN Thrown("bad public key size")
    ELSE Ok(\A i \in 1..PublicKeyLength :
              signature[SeedLength + i] =
                SignatureS(signature[i], publicKey[i], At(message, i),
                           EdScalarOf(publicKey[i])))

\* ed2curve.convertSecretKey: the clamped hash of the seed half.
convertSecretKey(sk) == [j \in 1..SeedLength |-> ScalarOf(sk[j])]

\* ed2curve.convertPublicKey: the Montgomery form of the same point.
convertPublicKey(pk) == [j \in 1..Len(pk) |-> CurvePointOf(EdScalarOf(pk[j]))]

\* nacl.box.keyPair() for the random secret key it drew.
nacl_box_keyPair(secretKey) ==
    [publicKey |-> [j \in 1..PublicKeyLength |-> CurvePointOf(secretKey[j])],
     secretKey |-> secretKey]

\* nacl.box.before: the shared key of a secret key and a public key.
nacl_box_before(publicKey, secretKey) ==
    [j \in 1..PublicKeyLength |-> PairOf(secretKey[j], CurveScalarOf(publicKey[j]))]

\* The key stream byte and the MAC position of nacl.secretbox.
KeyStream(key, nonce, j) == (Cyc(key, j) + Cyc(nonce, j)) % ByteRange

BoxTag(key, nonce, cipherText, j) ==
    (key[j] * ByteRange + nonce[j]) * (ByteRange + 1) + At(cipherText, j)

nacl_secretbox(message, nonce, key) ==
    LET cipherText == [j \in 1..Len(message) |->
                         (message[j] + KeyStream(key, nonce, j)) % ByteRange]
    IN  [j \in 1..BoxOverhead |-> BoxTag(key, nonce, cipherText, j)] \o cipherText

nacl_secretbox_open(box, nonce, key) ==
    IF Len(nonce) # NonceLength THEN Thrown("bad nonce size")
    ELSE IF Len(box) < BoxOverhead THEN NullResult
    ELSE LET cipherText == SliceFrom(box, BoxOverhead)
         IN  IF \E j \in 1..BoxOverhead : box[j] # BoxTag(key, nonce, cipherText, j)
             THEN NullResult
             ELSE Ok([j \in 1..Len(cipherText) |->
                        (cipherText[j] - KeyStream(key, nonce, j)) % ByteRange])

\* nacl.box: the sizes of the keys are checked first, then the nonce's.
nacl_box(message, nonce, publicKey, secretKey) ==
    IF Len(publicKey) # PublicKeyLength THEN Thrown("bad public key size")
    ELSE IF Len(secretKey) # SeedLength THEN Thrown("bad secret key size")
    ELSE IF Len(nonce) # NonceLength THEN Thrown("bad nonce size")
    ELSE Ok(nacl_secretbox(message, nonce, nacl_box_before(publicKey, secretKey)))

nacl_box_open(box, nonce, publicKey, secretKey) ==
    IF Len(publicKey) # PublicKeyLength THEN Thrown("bad public key size")
    ELSE IF Len(secretKey) # SeedLength THEN Thrown("bad secret key size")
    ELSE nacl_secretbox_open(box, nonce, nacl_box_before(publicKey, secretKey))

(***************************************************************************)
(* PublicKey.verify, KeyPair and KeyPairEd25519.                           *)
(***************************************************************************)
\* PublicKey.verify that hands message and signature to nacl in the other
\* order.
PublicKeyVerify_Reversed(key, message, signature) ==
    IF key.keyType = ED25519
    THEN nacl_sign_detached_verify(signature, message, key.data)
    ELSE Thrown("Unknown key type")

PublicKeyVerify(key, message, signature) ==
    IF key.keyType = ED25519
    THEN nacl_sign_detached_verify(message, signature, key.data)
    ELSE Thrown("Unknown key type")

\* new KeyPairEd25519(secretKey)
KeyPairEd25519(secretKey) ==
    LET d == base_decode(secretKey)
    IN  IF d.kind = "throw" THEN d
        ELSE LET keyPair == nacl_sign_keyPair_fromSecretKey(d.val)
             IN  IF keyPair.kind = "throw" THEN keyPair
                 ELSE Ok([publicKey |-> NewPublicKey(ED25519, keyPair.val.publicKey),
                          secretKey |-> secretKey])

\* KeyPairEd25519.fromRandom(), for the seed nacl.sign.keyPair() drew.
KeyPairEd25519FromRandom(seed) ==
    KeyPairEd25519(base_encode(nacl_sign_keyPair(seed).secretKey))

\* KeyPair.fromRandom(curve)
KeyPairFromRandom(curve, seed) ==
    IF toUpperCase(curve) = ED25519_UPPER THEN KeyPairEd25519FromRandom(seed)
    ELSE Thrown("Unknown curve")

\* KeyPair.fromString that takes every curve tag for ED25519.
KeyPairFromString_Coerce(encodedKey) ==
    LET parts == split(encodedKey, Colon)
    IN  IF Len(parts) = 1 THEN KeyPairEd25519(parts[1])
        ELSE IF Len(parts) = 2 THEN KeyPairEd25519(parts[2])
        ELSE InvalidFormat

\* KeyPair.fromString(encodedKey)
KeyPairFromString(encodedKey) ==
    LET parts == split(encodedKey, Colon)
    IN  IF Len(parts) = 1 THEN KeyPairEd25519(parts[1])
        ELSE IF Len(parts) = 2
        THEN IF toUpperCase(parts[1]) = ED25519_UPPER
             THEN KeyPairEd25519(parts[2])
             ELSE Thrown("Unknown curve")
        ELSE InvalidFormat

\* sign(message): the secret key was decoded by the constructor already.
KeyPairSign(keyPair, message) ==
    LET signature == nacl_sign_detached(message, base_decode(keyPair.secretKey).val)
    IN  IF signature.kind = "throw" THEN signature
        ELSE Ok([signature |-> signature.val, publicKey |-> keyPair.publicKey])

KeyPairVerify(keyPair, message, signature) ==
    PublicKeyVerify(keyPair.publicKey, message, signature)

\* toString that prints the secret key without its tag.
KeyPairToString_Bare(keyPair) == keyPair.secretKey

KeyPairToString(keyPair) == ED25519_TAG \o <<Colon>> \o keyPair.secretKey

getPublicKey(keyPair) == keyPair.publicKey

\* An envelope with the nonce before the ephemeral public key.
EnvelopeOf_NonceFirst(ephemeralPublicKey, nonce, cipher) ==
    nonce \o ephemeralPublicKey \o cipher

\* The bytes encryptMessage writes at offset 0, ephemeralKeyPair.publicKey
\* .length and ephemeralKeyPair.publicKey.length + nonce.length of a zeroed
\* result of the three lengths added.
EnvelopeOf(ephemeralPublicKey, nonce, cipher) ==
    [i \in 1..(Len(nonce) + Len(cipher) + Len(ephemeralPublicKey)) |->
        IF i <= Len(ephemeralPublicKey) THEN ephemeralPublicKey[i]
        ELSE IF i <= Len(ephemeralPublicKey) + Len(nonce)
        THEN nonce[i - Len(ephemeralPublicKey)]
        ELSE cipher[i - Len(ephemeralPublicKey) - Len(nonce)]]

\* encryptMessage that boxes for the Ed25519 key as it stands, without
\* convertPublicKey.
encryptMessage_Unconverted(message, receiverPublicKey, ephemeralSecretKey, nonce) ==
    LET ephemeralKeyPair == nacl_box_keyPair(ephemeralSecretKey)
        cipher == nacl_box(message, nonce, receiverPublicKey.data,
                           ephemeralKeyPair.secretKey)
    IN  IF cipher.kind = "throw" THEN cipher
        ELSE Ok(EnvelopeOf(ephemeralKeyPair.publicKey, nonce, cipher.val))

\* encryptMessage(message, receiverPublicKey), for the ephemeral secret key
\* nacl.box.keyPair() drew and the nonce nacl.randomBytes(24) drew.
encryptMessage(message, receiverPublicKey, ephemeralSecretKey, nonce) ==
    LET ephemeralKeyPair == nacl_box_keyPair(ephemeralSecretKey)
        cipher == nacl_box(message, nonce, convertPublicKey(receiverPublicKey.data),
                           ephemeralKeyPair.secretKey)
    IN  IF cipher.kind = "throw" THEN cipher
        ELSE Ok(EnvelopeOf(ephemeralKeyPair.publicKey, nonce, cipher.val))

\* The three regions decryptMessage reads.
EnvelopeSenderPublicKey(fullCipher) == Slice(fullCipher, 0, PublicKeyLength)

\* A nonce region that ends one byte early.
EnvelopeNonce_Short(fullCipher) == Slice(fullCipher, PublicKeyLength, CipherOffset - 1)

EnvelopeNonce(fullCipher) == Slice(fullCipher, PublicKeyLength, CipherOffset)

EnvelopeCipher(fullCipher) == SliceFrom(fullCipher, CipherOffset)

\* What decryptMessage hands to nacl.box.open beside its own secret key.
BoxOpenArguments(fullCipher) ==
    [senderPublicKey |-> EnvelopeSenderPublicKey(fullCipher),
     nonce |-> EnvelopeNonce(fullCipher),
     cipher |-> EnvelopeCipher(fullCipher)]

decryptMessage(keyPair, fullCipher) ==
    LET secretKey == convertSecretKey(base_decode(keyPair.secretKey).val)
        opened == BoxOpenArguments(fullCipher)
    IN  nacl_box_open(opened.cipher, opened.nonce, opened.senderPublicKey, secretKey)

\* PublicKey.from(value): a string is parsed, a PublicKey is returned as is.
PublicKeyFrom(value) ==
    IF value.type = "string" THEN PublicKeyFromString(value.str)
    ELSE Ok(value.key)

StringValue(s) == [type |-> "string", str |-> s, key |-> NewPublicKey(ED25519, <<>>)]

KeyValue(k) == [type |-> "PublicKey", str |-> <<>>, key |-> k]

(***************************************************************************)
(* The inputs of the calls.                                                *)
(***************************************************************************)
Slots == {"sender", "receiver"}

SeedIds == 1..NumSeeds

SeedOf(s) == Fill(SeedLength, s)

Seeds == {SeedOf(s) : s \in SeedIds}

\* The public key of a seed, as nacl derives it.
PublicOf(seed) == nacl_sign_keyPair(seed).publicKey

\* Decoded secret keys: the ones nacl makes (seed || its public key), the
\* first seed with the public key of the second, and a bare seed.
SoundSecrets == {nacl_sign_keyPair(seed).secretKey : seed \in Seeds}

MixedSecrets == {SeedOf(1) \o PublicOf(SeedOf((1 % NumSeeds) + 1))}

ShortSecrets == {SeedOf(1)}

\* Encoded secrets a caller may pass, with strings that encode no bytes.
KeyStrings == {base_encode(b) : b \in SoundSecrets \cup MixedSecrets}

SecretStrings ==
    KeyStrings \cup {base_encode(b) : b \in ShortSecrets} \cup {<<>>, <<"0", "O">>, <<"1">>}

\* Encoded public keys a caller may pass: 32 bytes, 31 bytes, none, not base 58.
PublicStrings ==
    {base_encode(PublicOf(seed)) : seed \in Seeds}
        \cup {base_encode(Slice(PublicOf(SeedOf(1)), 0, PublicKeyLength - 1)),
              <<>>, <<"0", "O">>}

CurveNames == {ED25519_TAG, ED25519_UPPER, <<"E","d","2","5","5","1","9">>,
               <<"s","e","c","p","2","5","6","k","1">>, <<>>}

\* <body>, <curve>:<body>, and strings with two colons or more.
Encoded(bodies) ==
    bodies
        \cup {c \o <<Colon>> \o b : c \in CurveNames, b \in bodies}
        \cup {ED25519_TAG \o <<Colon>> \o b \o <<Colon>> : b \in bodies}
        \cup {<<"a", Colon, "b", Colon, "c">>, <<Colon, Colon>>}

KeyPairStrings == Encoded(SecretStrings)

PublicKeyStrings == Encoded(PublicStrings)

MessageBytes == {6}

Messages == UNION {[1..n -> MessageBytes] : n \in 0..MaxMsgLen}

EphemeralSecretKeys == {Fill(SeedLength, 20 + e) : e \in 1..NumEphemeral}

Nonces == {Fill(NonceLength, 40 + n) : n \in 1..NumNonces}

(***************************************************************************)
(* The state: the caller's key pairs, the PublicKey, the Signature and the *)
(* envelope it holds, and the call it made last with what came back.  The  *)
(* caller makes one call at a time: it looks at what came back (Return)    *)
(* before it makes the next one.                                           *)
(*                                                                         *)
(* Every field holds values of one shape: a key pair not made yet is       *)
(* NoKeyPair, and what a call returns sits in the field of its type        *)
(* (string, data, keyPair, publicKey, truth) beside kind and err.          *)
(***************************************************************************)
NoKey == NewPublicKey(ED25519, <<>>)

NoKeyPair == [publicKey |-> NoKey, secretKey |-> <<>>]

NoArguments == [senderPublicKey |-> <<>>, nonce |-> <<>>, cipher |-> <<>>]

NoPublicKey == [held |-> FALSE, key |-> NoKey]

NoSignature ==
    [made |-> FALSE, signature |-> <<>>, publicKey |-> NoKey,
     message |-> <<>>, signer |-> NoKeyPair]

NoEnvelope ==
    [made |-> FALSE, bytes |-> <<>>, message |-> <<>>, receiver |-> NoKeyPair,
     ephemeralPublicKey |-> <<>>, nonce |-> <<>>, cipher |-> <<>>]

NoCall ==
    [op |-> "", who |-> NoKeyPair, key |-> NoKey, text |-> <<>>, bytes |-> <<>>,
     message |-> <<>>, opened |-> NoArguments,
     kind |-> "", err |-> "",
     string |-> <<>>, data |-> <<>>, keyPair |-> NoKeyPair, publicKey |-> NoKey,
     truth |-> FALSE]

\* The call op with its outcome: returned, returned null, or threw err.
Outcome(op, r) == [NoCall EXCEPT !.op = op, !.kind = r.kind, !.err = r.err]

ReturnsKeyPair(op, r) ==
    IF r.kind = "ok" THEN [Outcome(op, r) EXCEPT !.keyPair = r.val] ELSE Outcome(op, r)

ReturnsPublicKey(op, r) ==
    IF r.kind = "ok" THEN [Outcome(op, r) EXCEPT !.publicKey = r.val] ELSE Outcome(op, r)

ReturnsString(op, r) ==
    IF r.kind = "ok" THEN [Outcome(op, r) EXCEPT !.string = r.val] ELSE Outcome(op, r)

ReturnsData(op, r) ==
    IF r.kind = "ok" THEN [Outcome(op, r) EXCEPT !.data = r.val] ELSE Outcome(op, r)

ReturnsTruth(op, r) ==
    IF r.kind = "ok" THEN [Outcome(op, r) EXCEPT !.truth = r.val] ELSE Outcome(op, r)

ReturnsSignature(op, r) ==
    IF r.kind = "ok"
    THEN [Outcome(op, r) EXCEPT !.data = r.val.signature, !.publicKey = r.val.publicKey]
    ELSE Outcome(op, r)

Idle == res.op = ""

Held(slot) == kp[slot] # NoKeyPair

Init ==
    /\ kp = [s \in Slots |-> NoKeyPair]
    /\ pub = NoPublicKey
    /\ sig = NoSignature
    /\ env = NoEnvelope
    /\ res = NoCall

Return ==
    /\ ~Idle
    /\ res' = NoCall
    /\ UNCHANGED <<kp, pub, sig, env>>

Keep(slot, r) == IF r.kind = "ok" THEN [kp EXCEPT ![slot] = r.val] ELSE kp

KeepKey(r) == IF r.kind = "ok" THEN [held |-> TRUE, key |-> r.val] ELSE pub

CallNewKeyPairEd25519(slot, secretKey) ==
    /\ Idle
    /\ LET r == KeyPairEd25519(secretKey)
       IN  /\ kp' = Keep(slot, r)
           /\ res' = [ReturnsKeyPair("new KeyPairEd25519", r) EXCEPT !.text = secretKey]
    /\ UNCHANGED <<pub, sig, env>>

CallKeyPairFromString(slot, encodedKey) ==
    /\ Idle
    /\ LET r == KeyPairFromString(encodedKey)
       IN  /\ kp' = Keep(slot, r)
           /\ res' = [ReturnsKeyPair("KeyPair.fromString", r) EXCEPT !.text = encodedKey]
    /\ UNCHANGED <<pub, sig, env>>

CallKeyPairFromRandom(slot, curve, seed) ==
    /\ Idle
    /\ LET r == KeyPairFromRandom(curve, seed)
       IN  /\ kp' = Keep(slot, r)
           /\ res' = [ReturnsKeyPair("KeyPair.fromRandom", r) EXCEPT !.text = curve]
    /\ UNCHANGED <<pub, sig, env>>

CallKeyPairToString(slot) ==
    /\ Idle
    /\ Held(slot)
    /\ res' = [ReturnsString("KeyPair.toString", Ok(KeyPairToString(kp[slot])))
                  EXCEPT !.who = kp[slot]]
    /\ UNCHANGED <<kp, pub, sig, env>>

\* KeyPair.fromString(keyPair.toString()): the string toString returned
\* goes back to fromString.
CallKeyPairFromPrinted(slot) ==
    /\ res.op = "KeyPair.toString"
    /\ LET r == KeyPairFromString(res.string)
       IN  /\ kp' = Keep(slot, r)
           /\ res' = [ReturnsKeyPair("KeyPair.fromString(toString)", r)
                         EXCEPT !.who = res.who, !.text = res.string]
    /\ UNCHANGED <<pub, sig, env>>

\* KeyPair.fromString(s).toString(): the key pair fromString returned is
\* printed.
CallKeyPairPrintParsed ==
    /\ res.op = "KeyPair.fromString"
    /\ res.kind = "ok"
    /\ res' = [ReturnsString("KeyPair.fromString.toString", Ok(KeyPairToString(res.keyPair)))
                  EXCEPT !.who = res.keyPair, !.text = res.text]
    /\ UNCHANGED <<kp, pub, sig, env>>

CallPublicKeyFromString(encodedKey) ==
    /\ Idle
    /\ LET r == PublicKeyFromString(encodedKey)
       IN  /\ pub' = KeepKey(r)
           /\ res' = [ReturnsPublicKey("PublicKey.fromString", r) EXCEPT !.text = encodedKey]
    /\ UNCHANGED <<kp, sig, env>>

CallPublicKeyFrom(value) ==
    /\ Idle
    /\ LET r == PublicKeyFrom(value)
       IN  /\ pub' = KeepKey(r)
           /\ res' = [ReturnsPublicKey("PublicKey.from", r)
                         EXCEPT !.text = value.str, !.key = value.key]
    /\ UNCHANGED <<kp, sig, env>>

\* PublicKey.from(keyPair.getPublicKey().toString()) and
\* PublicKey.from(keyPair.getPublicKey()).
CallPublicKeyFromKeyPair(slot) ==
    /\ Held(slot)
    /\ \/ CallPublicKeyFrom(StringValue(PublicKeyToString(getPublicKey(kp[slot])).val))
       \/ CallPublicKeyFrom(KeyValue(getPublicKey(kp[slot])))

\* PublicKey.fromString(s).toString()
CallPublicKeyPrintParsed ==
    /\ res.op = "PublicKey.fromString"
    /\ res.kind = "ok"
    /\ res' = [ReturnsString("PublicKey.fromString.toString", PublicKeyToString(res.publicKey))
                  EXCEPT !.key = res.publicKey, !.text = res.text]
    /\ UNCHANGED <<kp, pub, sig, env>>

\* PublicKey.from(s).verify(message, signature), for the signature the
\* caller holds.
CallVerifyParsed(message) ==
    /\ res.op = "PublicKey.from"
    /\ res.kind = "ok"
    /\ sig.made
    /\ res' = [ReturnsTruth("PublicKey.from.verify",
                             PublicKeyVerify(res.publicKey, message, sig.signature))
                  EXCEPT !.key = res.publicKey, !.text = res.text,
                         !.bytes = sig.signature, !.message = message]
    /\ UNCHANGED <<kp, pub, sig, env>>

CallPublicKeyToString ==
    /\ Idle
    /\ pub.held
    /\ res' = [ReturnsString("PublicKey.toString", PublicKeyToString(pub.key))
                  EXCEPT !.key = pub.key]
    /\ UNCHANGED <<kp, pub, sig, env>>

CallSign(slot, message) ==
    /\ Idle
    /\ Held(slot)
    /\ LET r == KeyPairSign(kp[slot], message)
       IN  /\ sig' = IF r.kind = "ok"
                     THEN [made |-> TRUE, signature |-> r.val.signature,
                           publicKey |-> r.val.publicKey, message |-> message,
                           signer |-> kp[slot]]
                     ELSE sig
           /\ res' = [ReturnsSignature("KeyPair.sign", r)
                         EXCEPT !.who = kp[slot], !.message = message]
    /\ UNCHANGED <<kp, pub, env>>

CallVerify(slot, message) ==
    /\ Idle
    /\ Held(slot)
    /\ sig.made
    /\ res' = [ReturnsTruth("KeyPair.verify", KeyPairVerify(kp[slot], message, sig.signature))
                  EXCEPT !.who = kp[slot], !.bytes = sig.signature, !.message = message]
    /\ UNCHANGED <<kp, pub, sig, env>>

CallPublicKeyVerify(message) ==
    /\ Idle
    /\ pub.held
    /\ sig.made
    /\ res' = [ReturnsTruth("PublicKey.verify", PublicKeyVerify(pub.key, message, sig.signature))
                  EXCEPT !.key = pub.key, !.bytes = sig.signature, !.message = message]
    /\ UNCHANGED <<kp, pub, sig, env>>

\* kp["sender"].encryptMessage(message, kp[to].publicKey)
CallEncryptMessage(to, message, ephemeralSecretKey, nonce) ==
    /\ Idle
    /\ Held("sender")
    /\ Held(to)
    /\ LET receiverPublicKey == getPublicKey(kp[to])
           r == encryptMessage(message, receiverPublicKey, ephemeralSecretKey, nonce)
       IN  /\ env' = IF r.kind = "ok"
                     THEN [made |-> TRUE, bytes |-> r.val, message |-> message,
                           receiver |-> kp[to],
                           ephemeralPublicKey |-> nacl_box_keyPair(ephemeralSecretKey).publicKey,
                           nonce |-> nonce,
                           cipher |-> nacl_box(message, nonce,
                                               convertPublicKey(receiverPublicKey.data),
                                               ephemeralSecretKey).val]
                     ELSE env
           /\ res' = [ReturnsData("encryptMessage", r)
                         EXCEPT !.who = kp["sender"], !.key = receiverPublicKey,
                                !.message = message]
    /\ UNCHANGED <<kp, pub, sig>>

\* What a caller may hand to decryptMessage: the envelope, a prefix of it,
\* the envelope with one byte changed.
TruncatedLengths == {0, PublicKeyLength, CipherOffset, CipherOffset + BoxOverhead - 1,
                     CipherOffset + BoxOverhead}

CorruptedPositions(bytes) == {1, PublicKeyLength + 1, CipherOffset + 1, Len(bytes)}

Corrupted(bytes, i) == [bytes EXCEPT ![i] = (bytes[i] + 1) % ByteRange]

Received(bytes) ==
    {bytes}
        \cup {Slice(bytes, 0, n) : n \in {n \in TruncatedLengths : n < Len(bytes)}}
        \cup {Corrupted(bytes, i) : i \in CorruptedPositions(bytes)}

CallDecryptMessage(slot, fullCipher) ==
    /\ Idle
    /\ Held(slot)
    /\ res' = [ReturnsData("decryptMessage", decryptMessage(kp[slot], fullCipher))
                  EXCEPT !.who = kp[slot], !.bytes = fullCipher,
                         !.opened = BoxOpenArguments(fullCipher)]
    /\ UNCHANGED <<kp, pub, sig, env>>

\* decryptMessage of what arrived of the envelope.
CallDecryptReceived(slot) ==
    /\ env.made
    /\ \E fullCipher \in Received(env.bytes) : CallDecryptMessage(slot, fullCipher)

\* keyPair.getPublicKey().data[i] = b: data is the key's own Uint8Array.
WriteKeyData(slot, i, b) ==
    /\ Idle
    /\ Held(slot)
    /\ kp' = [kp EXCEPT ![slot].publicKey.data[i] = b]
    /\ UNCHANGED <<pub, sig, env, res>>

Construct ==
    \/ \E slot \in Slots, s \in KeyStrings : CallNewKeyPairEd25519(slot, s)
    \/ \E slot \in Slots, seed \in Seeds : CallKeyPairFromRandom(slot, ED25519_UPPER, seed)

NextParse ==
    \/ \E slot \in Slots, s \in KeyPairStrings : CallKeyPairFromString(slot, s)
    \/ \E slot \in Slots, s \in SecretStrings : CallNewKeyPairEd25519(slot, s)
    \/ \E slot \in Slots, c \in CurveNames, seed \in Seeds :
          CallKeyPairFromRandom(slot, c, seed)
    \/ \E slot \in Slots : CallKeyPairToString(slot)
    \/ \E slot \in Slots : CallKeyPairFromPrinted(slot)
    \/ CallKeyPairPrintParsed
    \/ CallPublicKeyPrintParsed
    \/ \E s \in PublicKeyStrings : CallPublicKeyFromString(s)
    \/ \E s \in PublicKeyStrings : CallPublicKeyFrom(StringValue(s))
    \/ \E slot \in Slots : CallPublicKeyFromKeyPair(slot)
    \/ CallPublicKeyToString
    \/ Return

NextSign ==
    \/ Construct
    \/ \E slot \in Slots : CallPublicKeyFromKeyPair(slot)
    \/ \E slot \in Slots, m \in Messages : CallSign(slot, m)
    \/ \E slot \in Slots, m \in Messages : CallVerify(slot, m)
    \/ \E m \in Messages : CallPublicKeyVerify(m)
    \/ \E m \in Messages : CallVerifyParsed(m)
    \/ Return

NextBox ==
    \/ Construct
    \/ \E to \in Slots, m \in Messages, e \in EphemeralSecretKeys, n \in Nonces :
          CallEncryptMessage(to, m, e, n)
    \/ \E slot \in Slots : CallDecryptReceived(slot)
    \/ Return

NextAlias ==
    \/ Construct
    \/ \E slot \in Slots, i \in {1}, b \in {0} : WriteKeyData(slot, i, b)
    \/ \E slot \in Slots, m \in Messages : CallSign(slot, m)
    \/ \E slot \in Slots, m \in Messages : CallVerify(slot, m)
    \/ Return

SpecParse == Init /\ [][NextParse]_vars

SpecSign == Init /\ [][NextSign]_vars

SpecBox == Init /\ [][NextBox]_vars

SpecAlias == Init /\ [][NextAlias]_vars


(***************************************************************************)
(* Properties of the box calls (SpecBox).                                  *)
(***************************************************************************)
\* The seed half of the secret key of a key pair.
SeedHalf(keyPair) == Slice(base_decode(keyPair.secretKey).val, 0, SeedLength)

\* The public key of the key pair is the one its seed derives, as in every
\* secret key nacl makes (fromRandom) and every string printed from one.
WellFormed(keyPair) == keyPair.publicKey.data = PublicOf(SeedHalf(keyPair))

\* The seed of the key pair is the secret of this public key.
Opens(keyPair, publicKey) == PublicOf(SeedHalf(keyPair)) = publicKey.data

\* decryptMessage was called on the envelope encryptMessage returned.
DecryptedEnvelope == res.op = "decryptMessage" /\ env.made /\ res.bytes = env.bytes

\* C1, as claimed: for every receiver key pair R, R.decryptMessage of the
\* envelope encryptMessage(m, R.publicKey) returned is m.
C1_RoundTripEveryKeyPair ==
    (DecryptedEnvelope /\ res.who = env.receiver)
        => (res.kind = "ok" /\ res.data = env.message)

\* C1, amended: for every receiver key pair R whose public key is the one
\* derived from its seed, R.decryptMessage of the envelope
\* encryptMessage(m, R.publicKey) returned is m, whoever sent it (R itself
\* included) and whatever ephemeral key and nonce were drawn.
C1_RoundTrip ==
    (DecryptedEnvelope /\ res.who = env.receiver /\ WellFormed(res.who))
        => (res.kind = "ok" /\ res.data = env.message)

C1_Witness ==
    /\ DecryptedEnvelope
    /\ res.who = env.receiver
    /\ WellFormed(res.who)
    /\ Len(env.message) > 0
    /\ res.kind = "ok"
    /\ res.data = env.message

C3_NullNeverThrows ==
    (res.op = "decryptMessage" /\ res.kind # "ok") => res.kind = "null"

\* C8: the envelope is len(m) + 72 bytes, the ephemeral public key in bytes
\* 0..32, the nonce in bytes 32..56, the box output of len(m) + 16 bytes
\* from byte 56; decryptMessage hands the same key, nonce and cipher to
\* nacl.box.open.
C8_EnvelopeLayout ==
    /\ env.made =>
          /\ Len(env.bytes) = Len(env.message) + 72
          /\ Len(env.cipher) = Len(env.message) + BoxOverhead
          /\ SubSeq(env.bytes, 1, 32) = env.ephemeralPublicKey
          /\ SubSeq(env.bytes, 33, 56) = env.nonce
          /\ SubSeq(env.bytes, 57, Len(env.bytes)) = env.cipher
    /\ DecryptedEnvelope =>
          res.opened = [senderPublicKey |-> env.ephemeralPublicKey,
                        nonce |-> env.nonce, cipher |-> env.cipher]

C8_Witness ==
    /\ DecryptedEnvelope
    /\ Len(env.message) > 0
    /\ res.opened.cipher = env.cipher
    /\ Len(env.bytes) = Len(env.message) + PublicKeyLength + NonceLength + BoxOverhead

(***************************************************************************)
(* Properties of the calls on encoded keys (SpecParse).                    *)
(***************************************************************************)
\* The positions of the colons of a string, counted without split.
ColonPositions(s) == {i \in 1..Len(s) : s[i] = Colon}

ColonCount(s) == Cardinality(ColonPositions(s))

FirstColon(s) == CHOOSE i \in ColonPositions(s) : \A j \in ColonPositions(s) : i <= j

\* What stands before the first colon, and the encoded segment: what stands
\* after it, or the whole string when there is no colon.
PrefixOf(s) == SubSeq(s, 1, FirstColon(s) - 1)

BodyOf(s) == IF ColonCount(s) = 0 THEN s ELSE SubSeq(s, FirstColon(s) + 1, Len(s))

\* "ed25519" in any letter case.
IsEd25519Tag(p) ==
    /\ Len(p) = Len(ED25519_TAG)
    /\ \A i \in 1..Len(p) : p[i] \in {ED25519_TAG[i], ED25519_UPPER[i]}

CanonicalPrefix == ED25519_TAG \o <<Colon>>

\* C4: KeyPair.fromString(kp.toString()) succeeds with the secretKey of kp,
\* and KeyPair.fromString(s).toString() is s for every accepted s of the
\* form "ed25519:<x>".
C4_StringRoundTrip ==
    /\ res.op = "KeyPair.fromString(toString)" =>
          /\ res.kind = "ok"
          /\ res.keyPair.secretKey = res.who.secretKey
    /\ (/\ res.op = "KeyPair.fromString.toString"
        /\ ColonCount(res.text) = 1
        /\ PrefixOf(res.text) = ED25519_TAG) =>
          /\ res.kind = "ok"
          /\ res.string = res.text

C4_Witness ==
    /\ res.op = "KeyPair.fromString.toString"
    /\ ColonCount(res.text) = 1
    /\ PrefixOf(res.text) = ED25519_TAG
    /\ Len(BodyOf(res.text)) = 2 * SecretKeyLength
    /\ res.string = res.text

ParseCall == res.op \in {"KeyPair.fromString", "PublicKey.fromString"}

UnknownCurveError == res.kind = "throw" /\ res.err \in {"Unknown curve", "Unknown key type"}

FormatError == res.kind = "throw" /\ res.err = InvalidFormat.err

\* The outcome of taking the segment as an ED25519 key.
AsEd25519(body) ==
    IF res.op = "KeyPair.fromString"
    THEN LET r == KeyPairEd25519(body)
         IN  /\ res.kind = r.kind
             /\ res.err = r.err
             /\ res.kind = "ok" => res.keyPair = r.val
    ELSE LET d == base_decode(body)
         IN  /\ res.kind = d.kind
             /\ res.err = d.err
             /\ res.kind = "ok" => res.publicKey = NewPublicKey(ED25519, d.val)

\* C5: two colons or more give the format error; one colon with a prefix
\* that is not "ed25519" in some letter case gives the unknown-curve error
\* (the empty prefix too); no colon, or one colon after "ed25519" in any
\* letter case, gives what the segment gives as an ED25519 key, and neither
\* of the two errors.
C5_ColonsAndTagDecide ==
    ParseCall =>
        /\ ColonCount(res.text) >= 2 => FormatError
        /\ (ColonCount(res.text) = 1 /\ ~IsEd25519Tag(PrefixOf(res.text)))
              => UnknownCurveError
        /\ (ColonCount(res.text) = 1 /\ IsEd25519Tag(PrefixOf(res.text)))
              => (AsEd25519(BodyOf(res.text)) /\ ~FormatError /\ ~UnknownCurveError)
        /\ ColonCount(res.text) = 0
              => (AsEd25519(res.text) /\ ~FormatError /\ ~UnknownCurveError)

C5_Witness ==
    /\ res.op = "KeyPair.fromString"
    /\ ColonCount(res.text) = 1
    /\ PrefixOf(res.text) = <<>>
    /\ Len(BodyOf(res.text)) = 2 * SecretKeyLength
    /\ UnknownCurveError

\* C7: PublicKey.fromString(s).toString() is "ed25519:" followed by
\* encode(decode(x)) for the encoded segment x of s, so the key parsed is
\* the ED25519 key of decode(x) whether s has a tag or not.
C7_ToStringCanonical ==
    /\ (res.op = "PublicKey.fromString" /\ res.kind = "ok") =>
          res.publicKey = NewPublicKey(ED25519, base_decode(BodyOf(res.text)).val)
    /\ res.op = "PublicKey.fromString.toString" =>
          /\ res.kind = "ok"
          /\ res.string = CanonicalPrefix \o base_encode(base_decode(BodyOf(res.text)).val)

C7_Witness ==
    /\ res.op = "PublicKey.fromString.toString"
    /\ ColonCount(res.text) = 0
    /\ Len(res.text) = 2 * PublicKeyLength
    /\ res.string = CanonicalPrefix \o res.text

\* C10: every ED25519 PublicKey holds 32 bytes: the one PublicKey.fromString
\* and PublicKey.from returned, and the one of every key pair.
C10_Ed25519KeysHold32Bytes ==
    /\ (pub.held /\ pub.key.keyType = ED25519) => Len(pub.key.data) = 32
    /\ \A slot \in Slots : Held(slot) => Len(kp[slot].publicKey.data) = 32

(***************************************************************************)
(* Properties of the signing calls (SpecSign).                             *)
(***************************************************************************)
SignedBy(keyPair) == sig.made /\ sig.signer = keyPair

\* The signature is verified under the PublicKey parsed from the string of
\* the signer's public key.
VerifiedUnderParsed ==
    /\ res.op = "PublicKey.from.verify"
    /\ sig.made
    /\ res.text = PublicKeyToString(getPublicKey(sig.signer)).val
    /\ res.message = sig.message

VerifiedBySigner ==
    /\ res.op = "KeyPair.verify"
    /\ SignedBy(res.who)
    /\ res.message = sig.message

\* C6, as claimed: for every key pair, the signature of a message verifies
\* under the key pair and under its public key parsed from its string.
C6_VerifiesEveryKeyPair ==
    (VerifiedBySigner \/ VerifiedUnderParsed) => (res.kind = "ok" /\ res.truth)

\* C6, amended: sign returns a Signature with the public key of the key
\* pair; for every key pair whose public key is the one derived from its
\* seed, the signature of a message verifies under the key pair, and under
\* the PublicKey that PublicKey.from parses from getPublicKey().toString().
C6_SignVerifyRoundTrip ==
    /\ res.op = "KeyPair.sign" =>
          /\ res.kind = "ok"
          /\ res.publicKey = res.who.publicKey
          /\ Len(res.data) = SignatureLength
    /\ ((VerifiedBySigner \/ VerifiedUnderParsed) /\ WellFormed(sig.signer))
          => (res.kind = "ok" /\ res.truth)

C6_Witness ==
    /\ VerifiedUnderParsed
    /\ WellFormed(sig.signer)
    /\ Len(sig.message) > 0
    /\ res.truth

(***************************************************************************)
(* Properties of a caller that writes into the buffer of a key (SpecAlias).*)
(***************************************************************************)
\* C9: the public key of a key pair stays the one its constructor derived
\* from its secretKey.
C9_PublicKeyStaysDerived ==
    \A slot \in Slots :
        Held(slot) => kp[slot].publicKey = KeyPairEd25519(kp[slot].secretKey).val.publicKey
====
